---- MODULE Spec2Model ----
(***************************************************************************)
(* Flight search: the result filter (filterFlights), the price trend       *)
(* aggregator (extractPriceData, with its gap-fill batches) and the App    *)
(* component that owns offers, filters and the price series.               *)
(*                                                                         *)
(* Conventions.  An optional value (null / undefined in the source) is a   *)
(* sequence of length at most one: None is <<>>, Some(x) is <<x>>.         *)
(* price.total is a decimal string; the model keeps it as an integer       *)
(* number of hundredths, which is what parseFloat reads from it.           *)
(* A departure timestamp is [valid, day, tod]: the calendar day and the    *)
(* time of day inside it; valid = FALSE is a string parseISO cannot read.  *)
(***************************************************************************)
EXTENDS Integers, Sequences, FiniteSets, TLC

VARIABLES
    \* ---- App component state (useState slots)
    flights, loading, error, hasSearched, searchParams, priceData,
    loadingPrices, filters,
    filteredFlights,   \* the useMemo value of the last render
    pendingSearch,     \* None, or Some(params) of the searchFlights call awaited
    runs,              \* the extractPriceData calls that have not settled yet
    nSearch, nFilter,  \* how many searches / filter changes happened so far
    last,              \* the last step taken (history, read by the properties)
    \* ---- direct calls of the two exported functions
    fIn, fSpec, fOut,  \* filterFlights(fIn, fSpec) = fOut
    aIn, aCtx, aOut,   \* extractPriceData(aIn, aCtx) settles with aOut
    \* ---- the external flight source
    source,            \* its answer to a price request, per origin and day
    \* ---- the service module amadeusApi
    accessToken,       \* the module-level token cache: None or Some(token)
    expired,           \* Date.now() >= tokenExpiry
    api,               \* per caller, its searchFlights / getPriceForDate call
    revoked,           \* (history) the tokens a 401 handler removed from the cache
    \* ---- the filter panel (FiltersComponent), mounted while offers are stored
    sliderValue,       \* its useState slot: None when unmounted, else Some(value)
    debounceTimer      \* the armed 150 ms timer: None, or Some of what it captured

appVars == <<flights, loading, error, hasSearched, searchParams, priceData,
             loadingPrices, filters, filteredFlights, pendingSearch,
             nSearch, nFilter>>
filterVars == <<fIn, fSpec, fOut>>
aggVars == <<aIn, aCtx, aOut>>
apiVars == <<accessToken, expired, api, revoked>>
panelVars == <<sliderValue, debounceTimer>>
vars == <<appVars, runs, last, filterVars, aggVars, source, apiVars, panelVars>>

----------------------------------------------------------------------------
\* Bounds of the model

\* longest offer sequence given to a direct call
MaxOffers == 2
\* user events (submitSearch, changeFilters) in one behaviour
MaxEvents == 3
\* extractPriceData calls of the App in flight at the same time
MaxRuns == 2
\* resolution of the time of day: a timestamp is day * TicksPerDay + tod
TicksPerDay == 2
\* requests one service call may send to the flight-offers endpoint
MaxRequests == 3

----------------------------------------------------------------------------
\* Optional values

None == <<>>
Some(x) == <<x>>

----------------------------------------------------------------------------
\* Data: offers, filter specs, search params

Seg(valid, day, tod, stops) ==
    [at |-> [valid |-> valid, day |-> day, tod |-> tod], numberOfStops |-> stops]

\* One offer: id, price.total (hundredths), itineraries (outbound first),
\* validatingAirlineCodes.
Offer(id, total, itineraries, airlines) ==
    [id |-> id, total |-> total, itineraries |-> itineraries,
     validatingAirlineCodes |-> airlines]

\* 100.00, evening of day 0, non-stop out and back, return on day 3
O1 == Offer(1, 10000, << <<Seg(TRUE, 0, 1, 0)>>, <<Seg(TRUE, 3, 0, 0)>> >>, <<"AA">>)
\* 200.00, morning of day 0, one stop out (two segments), non-stop back
O2 == Offer(2, 20000, << <<Seg(TRUE, 0, 0, 1), Seg(TRUE, 0, 1, 0)>>,
                        <<Seg(TRUE, 2, 0, 0)>> >>, <<"DL", "AA">>)
\* 150.50, morning of day 2, one way, two stops
O3 == Offer(3, 15050, << <<Seg(TRUE, 2, 0, 2)>> >>, <<"DL">>)
\* 101.00, morning of day 1, one way, non-stop out but three stops on the way back
O4 == Offer(4, 10100, << <<Seg(TRUE, 1, 0, 0)>>, <<Seg(TRUE, 1, 1, 3)>> >>, <<"UA">>)
\* 99.99, evening of day 7, one way, one stop
O5 == Offer(5, 9999, << <<Seg(TRUE, 7, 1, 1)>> >>, <<"UA">>)
\* an offer whose departure timestamp cannot be parsed
OBad == Offer(6, 12000, << <<Seg(FALSE, 0, 0, 0)>> >>, <<"AA">>)

Offers == {O1, O2, O3, O4, O5, OBad}

RECURSIVE SeqsUpTo(_, _)
SeqsUpTo(S, n) ==
    IF n = 0 THEN {<<>>}
    ELSE LET shorter == SeqsUpTo(S, n - 1)
         IN shorter \cup {Append(s, x) : s \in {t \in shorter : Len(t) = n - 1}, x \in S}

\* the no-constraint FilterSpec
NoFilters == [stops |-> None, maxPrice |-> None, airlines |-> <<>>]

FilterSpecs ==
    [stops : {None, Some(0), Some(1), Some(2)},
     maxPrice : {None, Some(10000), Some(15049)},
     airlines : {<<>>, <<"AA">>, <<"DL">>, <<"UA", "DL">>}]

----------------------------------------------------------------------------
\* filterFlights

\* Math.max(...xs) of a non-empty list
MathMax(xs) ==
    CHOOSE m \in {xs[i] : i \in DOMAIN xs} : \A i \in DOMAIN xs : xs[i] <= m

\* Math.min(...xs) of a non-empty list
MathMin(xs) ==
    CHOOSE m \in {xs[i] : i \in DOMAIN xs} : \A i \in DOMAIN xs : m <= xs[i]

\* parseFloat(flight.price.total), in hundredths
parseFloat(total) == total

\* (mutant of maxStops) only the outbound itinerary is looked at
maxStopsOutboundOnly(flight) ==
    MathMax([j \in DOMAIN flight.itineraries[1] |->
                 flight.itineraries[1][j].numberOfStops])

maxStops(flight) ==
    MathMax([i \in DOMAIN flight.itineraries |->
        MathMax([j \in DOMAIN flight.itineraries[i] |->
                     flight.itineraries[i][j].numberOfStops])])

hasMatchingAirline(flight, fs) ==
    \E k \in DOMAIN flight.validatingAirlineCodes :
        \E m \in DOMAIN fs.airlines :
            fs.airlines[m] = flight.validatingAirlineCodes[k]

\* (mutant of KeepFlight) the airline test made even with no airline selected
KeepFlightAirlinesRequired(flight, fs) ==
    IF fs.stops # None /\ maxStops(flight) # fs.stops[1] THEN FALSE
    ELSE IF fs.maxPrice # None /\ parseFloat(flight.total) > fs.maxPrice[1] THEN FALSE
    ELSE IF ~hasMatchingAirline(flight, fs) THEN FALSE
    ELSE TRUE

\* the callback given to flights.filter: the three early returns in order
KeepFlight(flight, fs) ==
    IF fs.stops # None /\ maxStops(flight) # fs.stops[1] THEN FALSE
    ELSE IF fs.maxPrice # None /\ parseFloat(flight.total) > fs.maxPrice[1] THEN FALSE
    ELSE IF Len(fs.airlines) > 0 /\ ~hasMatchingAirline(flight, fs) THEN FALSE
    ELSE TRUE

\* Array.prototype.filter: a new array, the kept elements in input order
RECURSIVE ArrayFilter(_, _, _)
ArrayFilter(flts, fs, i) ==
    IF i > Len(flts) THEN <<>>
    ELSE IF KeepFlight(flts[i], fs)
         THEN <<flts[i]>> \o ArrayFilter(flts, fs, i + 1)
         ELSE ArrayFilter(flts, fs, i + 1)

\* (mutant of filterFlights) the kept offers in reverse order
filterFlightsReversed(flts, fs) ==
    LET kept == ArrayFilter(flts, fs, 1)
    IN [i \in 1..Len(kept) |-> kept[Len(kept) + 1 - i]]

filterFlights(flts, fs) == ArrayFilter(flts, fs, 1)

----------------------------------------------------------------------------
\* Dates (date-fns) as the aggregator uses them

\* parseISO(s): Some(date), or None for the Invalid Date of an unreadable string
parseISO(at) ==
    IF at.valid THEN Some([day |-> at.day, tod |-> at.tod]) ELSE None

\* Date.prototype.getTime and new Date(ms)
getTime(d) == d.day * TicksPerDay + d.tod
newDate(ms) == [day |-> ms \div TicksPerDay, tod |-> ms % TicksPerDay]

\* addDays keeps the time of day
addDays(d, n) == [day |-> d.day + n, tod |-> d.tod]

\* format(d, 'yyyy-MM-dd') of a valid date: the calendar day, time of day dropped
format(d) == d.day

\* (mutant of MathRound) truncation instead of rounding
MathTrunc(num, den) == num \div den

\* Math.round(num / den) for num >= 0, den > 0: nearest integer, halves go up
MathRound(num, den) == (2 * num + den) \div (2 * den)

\* Math.round(totalHundredths / count), a whole currency amount
RoundAverage(total, count) == MathRound(total, 100 * count)

----------------------------------------------------------------------------
\* extractPriceData, the part that runs before the first await

\* days after the latest departure that the range covers (addDays(latestDate, 5))
ExtendDays == 5
BATCH_SIZE == 5

\* (mutant of outboundAt) the first segment of the last itinerary
returnAt(flight) == flight.itineraries[Len(flight.itineraries)][1].at

\* flight.itineraries[0].segments[0].departure.at
outboundAt(flight) == flight.itineraries[1][1].at

\* format(parseISO(...)) throws RangeError on an Invalid Date
ThrowsOnDates(flts) == \E i \in DOMAIN flts : parseISO(outboundAt(flts[i])) = None

\* flights.forEach(...) filling priceMap: date -> {total, count}
RECURSIVE GroupPrices(_, _, _)
GroupPrices(flts, i, priceMap) ==
    IF i > Len(flts) THEN priceMap
    ELSE LET price == parseFloat(flts[i].total)
             date == format(parseISO(outboundAt(flts[i]))[1])
             existing == IF date \in DOMAIN priceMap THEN priceMap[date]
                         ELSE [total |-> 0, count |-> 0]
         IN GroupPrices(flts, i + 1,
                [d \in DOMAIN priceMap \cup {date} |->
                    IF d = date
                    THEN [total |-> existing.total + price, count |-> existing.count + 1]
                    ELSE priceMap[d]])

\* the while (currentDate <= endDate) loop
RECURSIVE BuildRange(_, _, _, _)
BuildRange(currentDate, endDate, priceMap, allDates) ==
    IF getTime(currentDate) <= getTime(endDate)
    THEN LET dateStr == format(currentDate)
             point == IF dateStr \in DOMAIN priceMap
                      THEN [date |-> dateStr,
                            price |-> Some(RoundAverage(priceMap[dateStr].total,
                                                        priceMap[dateStr].count)),
                            count |-> priceMap[dateStr].count]
                      ELSE [date |-> dateStr, price |-> None, count |-> 0]
         IN BuildRange(addDays(currentDate, 1), endDate, priceMap,
                       Append(allDates, point))
    ELSE allDates

\* (mutant of RangeSkeleton) a date without offers gets price 0 instead of null
RangeSkeletonZeroGaps(flts) ==
    LET priceMap == GroupPrices(flts, 1, <<>>)
        times == [i \in DOMAIN flts |-> getTime(parseISO(outboundAt(flts[i]))[1])]
        earliestDate == newDate(MathMin(times))
        latestDate == newDate(MathMax(times))
        endDate == addDays(latestDate, ExtendDays)
        built == BuildRange(earliestDate, endDate, priceMap, <<>>)
    IN [k \in DOMAIN built |->
          IF built[k].count = 0 THEN [built[k] EXCEPT !.price = Some(0)] ELSE built[k]]

\* allDates as built from a non-empty list of offers with readable dates
RangeSkeleton(flts) ==
    LET priceMap == GroupPrices(flts, 1, <<>>)
        times == [i \in DOMAIN flts |-> getTime(parseISO(outboundAt(flts[i]))[1])]
        earliestDate == newDate(MathMin(times))
        latestDate == newDate(MathMax(times))
        endDate == addDays(latestDate, ExtendDays)
    IN BuildRange(earliestDate, endDate, priceMap, <<>>)

\* allDates.map(...).filter(price === null): the indices to fetch, ascending
RECURSIVE DatesToFetch(_, _)
DatesToFetch(allDates, i) ==
    IF i > Len(allDates) THEN <<>>
    ELSE IF allDates[i].price = None
         THEN <<i>> \o DatesToFetch(allDates, i + 1)
         ELSE DatesToFetch(allDates, i + 1)

----------------------------------------------------------------------------
\* The external source and getPriceForDate

P1 == [origin |-> "JFK", destination |-> "LAX", departureDate |-> 0, adults |-> 1]
P2 == [origin |-> "SFO", destination |-> "LAX", departureDate |-> 1, adults |-> 2]
Params == {P1, P2}
Origins == {p.origin : p \in Params}

\* a response of GET /v2/shopping/flight-offers: the HTTP status and, on 200,
\* the price.total of each offer in response.data.data
Resp(status, data) == [status |-> status, data |-> data]

\* 120.49 is the minimum -> 120; a 500; no offers; 120.50 -> 121
RespCycle == << Resp(200, <<13000, 12049>>), Resp(500, <<>>),
                Resp(200, <<>>), Resp(200, <<12050>>) >>

\* the days a price can be asked for: up to ExtendDays after the latest offer
SourceDays ==
    0 .. ((CHOOSE d \in {o.itineraries[1][1].at.day : o \in Offers} :
              \A o \in Offers : o.itineraries[1][1].at.day <= d) + ExtendDays)

OriginShift(o) == IF o = "JFK" THEN 0 ELSE 1

\* the answers of one source: the cycle above, started at k (shifted per origin)
CycleTable(k) ==
    [o \in Origins |-> [d \in SourceDays |->
        RespCycle[((d + k + OriginShift(o)) % Len(RespCycle)) + 1]]]

\* a source that gives the same answer for every request
FlatTable(r) == [o \in Origins |-> [d \in SourceDays |-> r]]

SourceTables ==
    {CycleTable(k) : k \in 0 .. Len(RespCycle) - 1}
        \cup {FlatTable(RespCycle[n]) : n \in {1, 2}}

\* (mutant of getPriceForDate) the first offer's total instead of the minimum
getPriceForDateFirstOffer(resp) ==
    IF resp.status = 200
    THEN IF Len(resp.data) = 0 THEN None ELSE Some(parseFloat(resp.data[1]))
    ELSE None

\* getPriceForDate, from the response to what it resolves with: the minimum
\* total, or null when there are no offers or the request failed (a 401 is
\* answered by a retry of the same request: the request stays in flight)
getPriceForDate(resp) ==
    IF resp.status = 200
    THEN IF Len(resp.data) = 0 THEN None
         ELSE Some(MathMin([i \in DOMAIN resp.data |-> parseFloat(resp.data[i])]))
    ELSE None

----------------------------------------------------------------------------
\* extractPriceData: the call, up to its first suspension

\* (mutant of BatchSlice) slice(i, BATCH_SIZE): the end is not moved with i
BatchSliceFixedEnd(datesToFetch, i) ==
    SubSeq(datesToFetch, i + 1,
           IF BATCH_SIZE < Len(datesToFetch) THEN BATCH_SIZE ELSE Len(datesToFetch))

\* (mutant of BatchSlice) slice(i, i + BATCH_SIZE + 1): one request too many
BatchSliceOneMore(datesToFetch, i) ==
    SubSeq(datesToFetch, i + 1,
           IF i + BATCH_SIZE + 1 < Len(datesToFetch) THEN i + BATCH_SIZE + 1
           ELSE Len(datesToFetch))

\* datesToFetch.slice(i, i + BATCH_SIZE)
BatchSlice(datesToFetch, i) ==
    SubSeq(datesToFetch, i + 1,
           IF i + BATCH_SIZE < Len(datesToFetch) THEN i + BATCH_SIZE
           ELSE Len(datesToFetch))

Range(s) == {s[k] : k \in DOMAIN s}

\* (mutant of NewRun) datesToFetch holds every date of the range
NewRunEveryDate(owner, flts, sp, allDates) ==
    LET datesToFetch == [k \in DOMAIN allDates |-> k]
    IN [owner |-> owner, of |-> flts, sp |-> sp, allDates |-> allDates,
        datesToFetch |-> datesToFetch, i |-> 0,
        inflight |-> Range(BatchSlice(datesToFetch, 0)),
        pausing |-> FALSE,
        pauses |-> 0,
        issued |-> <<BatchSlice(datesToFetch, 0)>>]

\* the local state of a suspended extractPriceData call, its first batch issued.
\* owner is the caller that awaits it; of, issued and pauses are history.
NewRun(owner, flts, sp, allDates) ==
    LET datesToFetch == DatesToFetch(allDates, 1)
    IN [owner |-> owner, of |-> flts, sp |-> sp, allDates |-> allDates,
        datesToFetch |-> datesToFetch, i |-> 0,
        inflight |-> Range(BatchSlice(datesToFetch, 0)),
        pausing |-> FALSE,
        pauses |-> 0,
        issued |-> <<BatchSlice(datesToFetch, 0)>>]

\* (mutant of CallExtract) without the flights.length === 0 return: Math.min()
\* of nothing is Infinity, and format of that date throws
CallExtractNoEmptyCheck(flts, ctx) ==
    IF Len(flts) = 0 \/ ThrowsOnDates(flts) THEN [kind |-> "threw", data |-> <<>>]
    ELSE LET allDates == RangeSkeleton(flts)
         IN IF ctx = None \/ DatesToFetch(allDates, 1) = <<>>
            THEN [kind |-> "returned", data |-> allDates]
            ELSE [kind |-> "suspended", data |-> allDates]

\* what a call does before it first suspends: it returns (resolves without
\* waiting), throws (rejects), or is suspended on its first batch
CallExtract(flts, ctx) ==
    IF Len(flts) = 0 THEN [kind |-> "returned", data |-> <<>>]
    ELSE IF ThrowsOnDates(flts) THEN [kind |-> "threw", data |-> <<>>]
    ELSE LET allDates == RangeSkeleton(flts)
         IN IF ctx = None \/ DatesToFetch(allDates, 1) = <<>>
            THEN [kind |-> "returned", data |-> allDates]
            ELSE [kind |-> "suspended", data |-> allDates]

----------------------------------------------------------------------------
\* App: render and the price effect

\* useEffect(updatePriceData, [filteredFlights, searchParams]) on a render that
\* changed a dependency.  pd and lp are priceData and loadingPrices as the
\* handler left them.  Gives the values after the effect and the run it leaves
\* suspended, if any.
UpdatePriceData(ff, sp, pd, lp) ==
    IF Len(ff) = 0
    THEN [priceData |-> <<>>, loadingPrices |-> lp, newRuns |-> <<>>]
    ELSE LET c == CallExtract(ff, sp)
             basic == CallExtract(ff, None)
         IN CASE c.kind = "suspended" ->
                   [priceData |-> pd, loadingPrices |-> TRUE,
                    newRuns |-> <<NewRun("effect", ff, sp, c.data)>>]
              [] c.kind = "returned" ->
                   [priceData |-> c.data, loadingPrices |-> FALSE, newRuns |-> <<>>]
              [] OTHER ->
                   \* catch: one call without context; finally in both cases
                   [priceData |-> IF basic.kind = "returned" THEN basic.data ELSE pd,
                    loadingPrices |-> FALSE, newRuns |-> <<>>]

\* FiltersComponent: priceRange[1] of a non-empty flights prop
PriceRangeMax(flts) == MathMax([i \in DOMAIN flts |-> parseFloat(flts[i].total)])

\* FiltersComponent after a render of the App with flights fl and filters fs;
\* fresh tells that fl is a newly stored array. The panel is mounted while
\* offers are stored (offers are stored only after a search, so hasSearched
\* holds); sliderValue starts as, and is set again on every change of
\* filters.maxPrice or of priceRange (recomputed for a new flights array) to,
\* filters.maxPrice ?? priceRange[1]
SliderAfter(fl, fs, fresh) ==
    IF Len(fl) = 0 THEN None
    ELSE IF fresh \/ Len(flights) = 0 \/ fs.maxPrice # filters.maxPrice
         THEN IF fs.maxPrice # None THEN fs.maxPrice ELSE Some(PriceRangeMax(fl))
         ELSE sliderValue

\* the cleanup on unmount clears the armed timer
TimerAfter(fl) == IF Len(fl) = 0 THEN None ELSE debounceTimer

NoStep == [kind |-> "Init", owner |-> "none", data |-> <<>>]
Step(kind, owner, data) == [kind |-> kind, owner |-> owner, data |-> data]

\* handleSearch up to its await of searchFlights(params), and the render after it
HandleSearch(params) ==
    /\ ~loading
    /\ nSearch + nFilter < MaxEvents
    /\ LET ff == filterFlights(flights, NoFilters)
           e == UpdatePriceData(ff, Some(params), priceData, loadingPrices)
       IN /\ Len(runs \o e.newRuns) <= MaxRuns
          /\ loading' = TRUE
          /\ error' = None
          /\ hasSearched' = TRUE
          /\ searchParams' = Some(params)
          /\ filters' = NoFilters
          /\ pendingSearch' = Some(params)
          /\ filteredFlights' = ff
          /\ priceData' = e.priceData
          /\ loadingPrices' = e.loadingPrices
          /\ runs' = runs \o e.newRuns
    /\ nSearch' = nSearch + 1
    /\ last' = Step("HandleSearch", "none", <<params>>)
    /\ UNCHANGED <<flights, nFilter, filterVars, aggVars, source, apiVars>>
    /\ sliderValue' = SliderAfter(flights', filters', FALSE)
    /\ debounceTimer' = TimerAfter(flights')

\* handleSearch from the moment searchFlights resolved with results, up to its
\* next suspension or its end; h is the App state its own statements leave,
\* before the render
SearchContinuation(results, params) ==
    LET c == CallExtract(results, Some(params))
        basic == CallExtract(results, None)
    IN IF Len(results) = 0
       THEN [flights |-> results, priceData |-> <<>>, loadingPrices |-> loadingPrices,
             loading |-> FALSE, error |-> error, newRuns |-> <<>>]
       ELSE CASE c.kind = "suspended" ->
                   [flights |-> results, priceData |-> priceData, loadingPrices |-> TRUE,
                    loading |-> TRUE, error |-> error,
                    newRuns |-> <<NewRun("search", results, Some(params), c.data)>>]
              [] c.kind = "returned" ->
                   [flights |-> results, priceData |-> c.data, loadingPrices |-> FALSE,
                    loading |-> FALSE, error |-> error, newRuns |-> <<>>]
              [] c.kind = "threw" /\ basic.kind = "returned" ->
                   [flights |-> results, priceData |-> basic.data, loadingPrices |-> FALSE,
                    loading |-> FALSE, error |-> error, newRuns |-> <<>>]
              [] OTHER ->
                   \* the inner catch threw: finally, then the outer catch
                   [flights |-> <<>>, priceData |-> <<>>, loadingPrices |-> FALSE,
                    loading |-> FALSE, error |-> Some("Invalid time value"),
                    newRuns |-> <<>>]

SearchSucceeds(results) ==
    /\ pendingSearch # None
    /\ LET h == SearchContinuation(results, pendingSearch[1])
           ff == filterFlights(h.flights, filters)
           e == UpdatePriceData(ff, searchParams, h.priceData, h.loadingPrices)
       IN /\ Len(runs \o h.newRuns \o e.newRuns) <= MaxRuns
          /\ flights' = h.flights
          /\ loading' = h.loading
          /\ error' = h.error
          /\ filteredFlights' = ff
          /\ priceData' = e.priceData
          /\ loadingPrices' = e.loadingPrices
          /\ runs' = runs \o h.newRuns \o e.newRuns
    /\ pendingSearch' = None
    /\ last' = Step("SearchSucceeds", "none", results)
    /\ UNCHANGED <<hasSearched, searchParams, filters, nSearch, nFilter,
                   filterVars, aggVars, source, apiVars>>
    /\ sliderValue' = SliderAfter(flights', filters', TRUE)
    /\ debounceTimer' = TimerAfter(flights')

\* (mutant of SearchFails) the catch without its setFlights([])
SearchFailsKeepsOffers(msg) ==
    /\ pendingSearch # None
    /\ LET ff == filterFlights(flights, filters)
           e == UpdatePriceData(ff, searchParams, <<>>, loadingPrices)
       IN /\ Len(runs \o e.newRuns) <= MaxRuns
          /\ error' = Some(msg)
          /\ loading' = FALSE
          /\ filteredFlights' = ff
          /\ priceData' = e.priceData
          /\ loadingPrices' = e.loadingPrices
          /\ runs' = runs \o e.newRuns
    /\ pendingSearch' = None
    /\ last' = Step("SearchFails", "none", <<msg>>)
    /\ UNCHANGED <<flights, hasSearched, searchParams, filters, nSearch, nFilter,
                   filterVars, aggVars, source, apiVars>>
    /\ sliderValue' = SliderAfter(flights', filters', TRUE)
    /\ debounceTimer' = TimerAfter(flights')

\* handleSearch from the moment searchFlights rejected with Error(msg)
SearchFails(msg) ==
    /\ pendingSearch # None
    /\ LET ff == filterFlights(<<>>, filters)
           e == UpdatePriceData(ff, searchParams, <<>>, loadingPrices)
       IN /\ error' = Some(msg)
          /\ flights' = <<>>
          /\ loading' = FALSE
          /\ filteredFlights' = ff
          /\ priceData' = e.priceData
          /\ loadingPrices' = e.loadingPrices
          /\ runs' = runs \o e.newRuns
    /\ pendingSearch' = None
    /\ last' = Step("SearchFails", "none", <<msg>>)
    /\ UNCHANGED <<hasSearched, searchParams, filters, nSearch, nFilter,
                   filterVars, aggVars, source, apiVars>>
    /\ sliderValue' = SliderAfter(flights', filters', TRUE)
    /\ debounceTimer' = TimerAfter(flights')

\* (mutant of HandleFiltersChange) a null stops choice keeps the stored one
\* instead of replacing the whole spec
HandleFiltersChangeMerge(newFilters) ==
    /\ hasSearched
    /\ Len(flights) > 0
    /\ nSearch + nFilter < MaxEvents
    /\ LET merged == [newFilters EXCEPT
                         !.stops = IF newFilters.stops = None THEN filters.stops
                                   ELSE newFilters.stops]
           ff == filterFlights(flights, merged)
           e == UpdatePriceData(ff, searchParams, priceData, loadingPrices)
       IN /\ Len(runs \o e.newRuns) <= MaxRuns
          /\ filters' = merged
          /\ filteredFlights' = ff
          /\ priceData' = e.priceData
          /\ loadingPrices' = e.loadingPrices
          /\ runs' = runs \o e.newRuns
    /\ nFilter' = nFilter + 1
    /\ last' = Step("HandleFiltersChange", "none", <<newFilters>>)
    /\ UNCHANGED <<flights, loading, error, hasSearched, searchParams,
                   pendingSearch, nSearch, filterVars, aggVars, source, apiVars>>
    /\ sliderValue' = SliderAfter(flights', filters', FALSE)

\* handleFiltersChange(newFilters) and the render after it; the filter panel
\* is on screen only when hasSearched and flights.length > 0
HandleFiltersChange(newFilters) ==
    /\ hasSearched
    /\ Len(flights) > 0
    /\ nSearch + nFilter < MaxEvents
    /\ LET ff == filterFlights(flights, newFilters)
           e == UpdatePriceData(ff, searchParams, priceData, loadingPrices)
       IN /\ Len(runs \o e.newRuns) <= MaxRuns
          /\ filters' = newFilters
          /\ filteredFlights' = ff
          /\ priceData' = e.priceData
          /\ loadingPrices' = e.loadingPrices
          /\ runs' = runs \o e.newRuns
    /\ nFilter' = nFilter + 1
    /\ last' = Step("HandleFiltersChange", "none", <<newFilters>>)
    /\ UNCHANGED <<flights, loading, error, hasSearched, searchParams,
                   pendingSearch, nSearch, filterVars, aggVars, source, apiVars>>
    /\ sliderValue' = SliderAfter(flights', filters', FALSE)

----------------------------------------------------------------------------
\* extractPriceData: gap-fill, from one suspension to the next

RemoveAt(s, k) == SubSeq(s, 1, k - 1) \o SubSeq(s, k + 1, Len(s))

\* (mutant of ApplyPrice) the price goes to the first point still without one,
\* in the order the requests settle, instead of the point of the request
ApplyPriceFirstFree(allDates, index, price) ==
    IF price # None
    THEN LET free == {k \in DOMAIN allDates : allDates[k].price = None}
             first == CHOOSE k \in free : \A j \in free : k <= j
         IN [allDates EXCEPT ![first] =
                [date |-> allDates[first].date,
                 price |-> Some(MathRound(price[1], 100)),
                 count |-> 1]]
    ELSE allDates

\* (mutant of ApplyPrice) the price is written and count is left as it was
ApplyPriceKeepsCount(allDates, index, price) ==
    IF price # None
    THEN [allDates EXCEPT ![index] =
             [date |-> allDates[index].date,
              price |-> Some(MathRound(price[1], 100)),
              count |-> allDates[index].count]]
    ELSE allDates

\* the .then / try body of one request: the point of its own index is written
\* when the price is not null
ApplyPrice(allDates, index, price) ==
    IF price # None
    THEN [allDates EXCEPT ![index] =
             [date |-> allDates[index].date,
              price |-> Some(MathRound(price[1], 100)),
              count |-> 1]]
    ELSE allDates

\* what the source answers, in the end, to the request of run for allDates[index]
FetchedPrice(run, index) ==
    getPriceForDate(source[run.sp[1].origin][run.allDates[index].date])

\* Run r goes on with allDates written and inflight still awaited.  When the
\* batch has settled, Promise.allSettled resolves: either the 200 ms timer is
\* set, or the loop ends, extractPriceData returns allDates and its caller
\* goes on (setPriceData and the finally blocks).
Resume(r, allDates, inflight) ==
    LET run == runs[r]
        more == run.i + BATCH_SIZE < Len(run.datesToFetch)
        returns == inflight = {} /\ ~more
    IN /\ runs' = IF returns THEN RemoveAt(runs, r)
                  ELSE [runs EXCEPT ![r] =
                           [run EXCEPT !.allDates = allDates,
                                       !.inflight = inflight,
                                       !.pausing = (inflight = {} /\ more)]]
       \* setPriceData(data) in updatePriceData and in handleSearch
       /\ priceData' = IF returns /\ run.owner \in {"effect", "search"}
                       THEN allDates ELSE priceData
       \* finally { setLoadingPrices(false) }
       /\ loadingPrices' = IF returns /\ run.owner \in {"effect", "search"}
                           THEN FALSE ELSE loadingPrices
       \* handleSearch: finally { setLoading(false) }
       /\ loading' = IF returns /\ run.owner = "search" THEN FALSE ELSE loading
       \* a direct call: the promise resolves with allDates
       /\ aOut' = IF returns /\ run.owner = "call"
                  THEN [status |-> "returned", data |-> allDates] ELSE aOut
       /\ last' = Step(IF returns THEN "RunReturns" ELSE "Settle", run.owner, allDates)
       /\ UNCHANGED <<flights, error, hasSearched, searchParams, filters,
                      filteredFlights, pendingSearch, nSearch, nFilter,
                      filterVars, aIn, aCtx, source, apiVars, panelVars>>

\* the request of run r for allDates[index] settles
SettleRequest(r, index) ==
    /\ r \in DOMAIN runs
    /\ index \in runs[r].inflight
    /\ Resume(r, ApplyPrice(runs[r].allDates, index, FetchedPrice(runs[r], index)),
              runs[r].inflight \ {index})

\* every request of the set has settled, each writing its own point
RECURSIVE ApplyPrices(_, _, _)
ApplyPrices(run, allDates, indices) ==
    IF indices = {} THEN allDates
    ELSE LET index == CHOOSE x \in indices : \A y \in indices : x <= y
         IN ApplyPrices(run, ApplyPrice(allDates, index, FetchedPrice(run, index)),
                        indices \ {index})

\* all the requests of the batch of run r have settled.  The writes of single
\* requests stay inside the run (allDates is local until the return), so the
\* App model takes the settling of a batch as one step.
SettleBatch(r) ==
    /\ r \in DOMAIN runs
    /\ runs[r].inflight # {}
    /\ Resume(r, ApplyPrices(runs[r], runs[r].allDates, runs[r].inflight), {})

\* (mutant of PauseElapsed) the loop index moves on by two batches
PauseElapsedSkipsBatch(r) ==
    /\ r \in DOMAIN runs
    /\ runs[r].pausing
    /\ LET run == runs[r]
           i == run.i + BATCH_SIZE + BATCH_SIZE
           batch == BatchSlice(run.datesToFetch, i)
       IN runs' = [runs EXCEPT ![r] =
                      [run EXCEPT !.i = i, !.inflight = Range(batch),
                                  !.pausing = FALSE,
                                  !.pauses = @ + 1,
                                  !.issued = Append(run.issued, batch)]]
    /\ last' = Step("PauseElapsed", runs[r].owner, <<>>)
    /\ UNCHANGED <<appVars, filterVars, aggVars, source, apiVars, panelVars>>

\* the setTimeout(resolve, 200) between two batches fires: the next batch is issued
PauseElapsed(r) ==
    /\ r \in DOMAIN runs
    /\ runs[r].pausing
    /\ LET run == runs[r]
           i == run.i + BATCH_SIZE
           batch == BatchSlice(run.datesToFetch, i)
       IN runs' = [runs EXCEPT ![r] =
                      [run EXCEPT !.i = i, !.inflight = Range(batch),
                                  !.pausing = FALSE,
                                  !.pauses = @ + 1,
                                  !.issued = Append(run.issued, batch)]]
    /\ last' = Step("PauseElapsed", runs[r].owner, <<>>)
    /\ UNCHANGED <<appVars, filterVars, aggVars, source, apiVars, panelVars>>

----------------------------------------------------------------------------
\* amadeusApi: searchFlights and getPriceForDate, request by request

\* the callers of the service module that may be active at the same time
Callers == {"a", "b"}

\* the token the n-th POST of caller c obtained
Token(c, n) == [by |-> c, post |-> n]

\* no call in progress; resp is the last answer the GET of a call received
NoCall ==
    [fn |-> "none", pc |-> "idle", token |-> None, requests |-> 0, posts |-> 0,
     resp |-> None, result |-> None]

\* an answer of the flight-offers endpoint; status 0 stands for no response
ApiResp(status, data, errors) == [status |-> status, data |-> data, errors |-> errors]
ApiError(detail, parameter) == [detail |-> detail, parameter |-> parameter]

ApiResponses ==
    { ApiResp(200, <<O3, O1>>, <<>>),
      ApiResp(200, <<>>, <<>>),
      ApiResp(401, <<>>, <<ApiError(Some("Token expired"), None)>>),
      ApiResp(400, <<>>, <<ApiError(Some("Invalid date"), Some("departureDate"))>>),
      ApiResp(400, <<>>, <<ApiError(Some("Bad request"), None)>>),
      ApiResp(400, <<>>, <<ApiError(None, Some("adults"))>>),
      ApiResp(500, <<>>, <<>>),
      ApiResp(0, <<>>, <<>>) }

GenericMessage ==
    "Failed to search flights. Please check your API credentials and try again."

\* searchFlights, the message of the Error it throws; a message is the
\* sequence of the strings concatenated
ErrorMessage(resp) ==
    IF Len(resp.errors) > 0
    THEN LET firstError == resp.errors[1]
             errorMessage == IF firstError.detail # None THEN firstError.detail[1]
                             ELSE GenericMessage
         IN IF firstError.parameter # None
            THEN <<errorMessage, " (Parameter: ", firstError.parameter[1], ")">>
            ELSE <<errorMessage>>
    ELSE <<GenericMessage>>

Returned(v) == Some([kind |-> "returned", value |-> <<v>>])
Raised(msg) == Some([kind |-> "raised", value |-> <<msg>>])

\* the catch block for an error that is not a 401 response
Surface(fn, resp) == IF fn = "search" THEN Raised(ErrorMessage(resp)) ELSE Returned(None)

\* the try block after a 200 response
Deliver(fn, resp) ==
    IF fn = "search" THEN Returned(resp.data)
    ELSE Returned(getPriceForDate(Resp(200, [i \in DOMAIN resp.data |-> resp.data[i].total])))

\* (mutant of ApiCall) getAccessToken answers from the cache without looking
\* at tokenExpiry
ApiCallIgnoresExpiry(c, fn) ==
    /\ api[c].pc = "idle"
    /\ LET cached == accessToken # None
       IN api' = [api EXCEPT ![c] =
                     [fn |-> fn,
                      pc |-> IF cached THEN "get" ELSE "post",
                      token |-> IF cached THEN accessToken ELSE None,
                      requests |-> IF cached THEN 1 ELSE 0,
                      posts |-> IF cached THEN 0 ELSE 1,
                      resp |-> None,
                      result |-> None]]
    /\ UNCHANGED <<accessToken, expired, revoked, appVars, runs, last, filterVars,
                   aggVars, source, panelVars>>

\* caller c calls searchFlights or getPriceForDate: getAccessToken answers
\* from the cache and the GET is sent, or it sends the POST for a token
ApiCall(c, fn) ==
    /\ api[c].pc = "idle"
    /\ LET cached == accessToken # None /\ ~expired
       IN api' = [api EXCEPT ![c] =
                     [fn |-> fn,
                      pc |-> IF cached THEN "get" ELSE "post",
                      token |-> IF cached THEN accessToken ELSE None,
                      requests |-> IF cached THEN 1 ELSE 0,
                      posts |-> IF cached THEN 0 ELSE 1,
                      resp |-> None,
                      result |-> None]]
    /\ UNCHANGED <<accessToken, expired, revoked, appVars, runs, last, filterVars,
                   aggVars, source, panelVars>>

\* the POST of getAccessToken settles: the token is cached and the GET is
\* sent with it, or getAccessToken throws into the caller's catch
TokenSettles(c, ok) ==
    /\ api[c].pc = "post"
    /\ IF ok
       THEN /\ api[c].requests < MaxRequests
            /\ accessToken' = Some(Token(c, api[c].posts))
            /\ expired' = FALSE
            /\ api' = [api EXCEPT ![c].pc = "get",
                                  ![c].token = Some(Token(c, api[c].posts)),
                                  ![c].requests = @ + 1]
       ELSE /\ api' = [api EXCEPT ![c].pc = "done",
                                  ![c].result = Surface(api[c].fn, ApiResp(0, <<>>, <<>>))]
            /\ UNCHANGED <<accessToken, expired>>
    /\ UNCHANGED <<revoked, appVars, runs, last, filterVars, aggVars, source, panelVars>>

\* the GET of caller c settles with resp
GetSettles(c, resp) ==
    /\ api[c].pc = "get"
    /\ CASE resp.status = 200 ->
              /\ api' = [api EXCEPT ![c].pc = "done", ![c].resp = Some(resp),
                                    ![c].result = Deliver(api[c].fn, resp)]
              /\ UNCHANGED accessToken
         [] resp.status = 401 ->
              \* accessToken = null; return the same call again
              /\ accessToken' = None
              /\ api' = [api EXCEPT ![c].pc = "post", ![c].token = None,
                                    ![c].resp = Some(resp), ![c].posts = @ + 1]
         [] OTHER ->
              /\ api' = [api EXCEPT ![c].pc = "done", ![c].resp = Some(resp),
                                    ![c].result = Surface(api[c].fn, resp)]
              /\ UNCHANGED accessToken
    /\ revoked' = IF resp.status = 401 THEN revoked \cup Range(accessToken) ELSE revoked
    /\ UNCHANGED <<expired, appVars, runs, last, filterVars, aggVars, source, panelVars>>

\* time passes tokenExpiry
TokenExpires ==
    /\ accessToken # None
    /\ ~expired
    /\ expired' = TRUE
    /\ UNCHANGED <<accessToken, api, revoked, appVars, runs, last, filterVars,
                   aggVars, source, panelVars>>

----------------------------------------------------------------------------
\* Direct calls of the exported functions

\* filterFlights(flts, fs), called once
CallFilter(flts, fs) ==
    /\ last.kind = "Init"
    /\ fIn' = flts
    /\ fSpec' = fs
    /\ fOut' = filterFlights(flts, fs)
    /\ last' = Step("CallFilter", "call", <<>>)
    /\ UNCHANGED <<appVars, runs, aggVars, source, apiVars, panelVars>>

\* extractPriceData(flts, ctx), called once
CallAggregate(flts, ctx) ==
    /\ aOut.status = "none"
    /\ LET c == CallExtract(flts, ctx)
       IN /\ aOut' = IF c.kind = "suspended" THEN [status |-> "pending", data |-> <<>>]
                     ELSE [status |-> c.kind, data |-> c.data]
          /\ runs' = IF c.kind = "suspended"
                     THEN runs \o <<NewRun("call", flts, ctx, c.data)>>
                     ELSE runs
    /\ aIn' = flts
    /\ aCtx' = ctx
    /\ last' = Step("CallAggregate", "call", <<>>)
    /\ UNCHANGED <<appVars, filterVars, source, apiVars, panelVars>>

----------------------------------------------------------------------------
\* Specifications

InitApp ==
    /\ flights = <<>>
    /\ loading = FALSE
    /\ error = None
    /\ hasSearched = FALSE
    /\ searchParams = None
    /\ priceData = <<>>
    /\ loadingPrices = FALSE
    /\ filters = NoFilters
    /\ filteredFlights = <<>>
    /\ pendingSearch = None
    /\ runs = <<>>
    /\ nSearch = 0
    /\ nFilter = 0
    /\ last = NoStep
    /\ sliderValue = None
    /\ debounceTimer = None

InitCalls ==
    /\ fIn = <<>>
    /\ fSpec = NoFilters
    /\ fOut = <<>>
    /\ aIn = <<>>
    /\ aCtx = None
    /\ aOut = [status |-> "none", data |-> <<>>]
    /\ accessToken = None
    /\ expired = TRUE
    /\ api = [c \in Callers |-> NoCall]
    /\ revoked = {}

\* what the source answers to a search in the App model
SearchResults == {<<>>, <<O2, O3>>, <<O1>>, <<OBad>>}
SearchErrors == {"Failed to search flights. Please check your API credentials and try again."}
AppFilterSpecs ==
    {NoFilters,
     [stops |-> Some(1), maxPrice |-> None, airlines |-> <<>>],
     [stops |-> None, maxPrice |-> Some(10000), airlines |-> <<"UA">>]}

\* ---- FiltersComponent: its handlers and its debounce timer

\* the values the Slider offers: from priceRange[0] in steps of 50.00, the
\* last one being priceRange[1]
SliderValues(flts) ==
    LET totals == {parseFloat(flts[i].total) : i \in DOMAIN flts}
        lo == CHOOSE x \in totals : \A y \in totals : x <= y
        hi == PriceRangeMax(flts)
    IN IF Len(flts) = 0 THEN {}
       ELSE {IF lo + 5000 * k > hi THEN hi ELSE lo + 5000 * k :
                k \in 0..((hi - lo) \div 5000 + 1)}

\* handleStopsChange: the filters of the last render with the new stops
HandleStopsChange(stops) ==
    /\ sliderValue # None
    /\ HandleFiltersChange([filters EXCEPT !.stops = stops])
    /\ UNCHANGED debounceTimer

\* handleAirlinesChange: the filters of the last render with the new airlines
HandleAirlinesChange(value) ==
    /\ sliderValue # None
    /\ HandleFiltersChange([filters EXCEPT !.airlines = value])
    /\ UNCHANGED debounceTimer

\* handlePriceChange: the slider shows the value at once; the timer armed
\* before is cleared and a new one is armed, whose callback holds the value
\* and the filters of the render the handler belongs to
HandlePriceChange(value) ==
    /\ sliderValue # None
    /\ sliderValue' = Some(value)
    /\ debounceTimer' = Some([filters |-> filters, value |-> value])
    /\ last' = Step("HandlePriceChange", "none", <<value>>)
    /\ UNCHANGED <<appVars, runs, filterVars, aggVars, source, apiVars>>

\* the 150 ms have passed: the callback of the timer runs
DebounceFires ==
    /\ debounceTimer # None
    /\ HandleFiltersChange([debounceTimer[1].filters EXCEPT
                               !.maxPrice = Some(debounceTimer[1].value)])
    /\ debounceTimer' = None

\* the four stops chips, and the selections of the airlines list that are tried
PanelStops == {None, Some(0), Some(1), Some(2)}
PanelAirlines == {<<>>, <<"DL">>}

InitPanel == InitApp /\ InitCalls /\ source = CycleTable(0)

NextPanel ==
    \/ HandleSearch(P1)
    \/ SearchSucceeds(<<O2, O3>>)
    \/ \E stops \in PanelStops : HandleStopsChange(stops)
    \/ \E value \in PanelAirlines : HandleAirlinesChange(value)
    \/ \E value \in SliderValues(flights) : HandlePriceChange(value)
    \/ DebounceFires
    \/ \E r \in DOMAIN runs : SettleBatch(r)
    \/ \E r \in DOMAIN runs : PauseElapsed(r)

SpecPanel == InitPanel /\ [][NextPanel]_vars

\* ---- the App with its searches, filter changes and aggregation runs
Init == InitApp /\ InitCalls /\ source = CycleTable(0)

Next ==
    \/ \E params \in Params : HandleSearch(params)
    \/ \E results \in SearchResults : SearchSucceeds(results)
    \/ \E msg \in SearchErrors : SearchFails(msg)
    \/ \E newFilters \in AppFilterSpecs :
          HandleFiltersChange(newFilters) /\ UNCHANGED debounceTimer
    \/ \E r \in DOMAIN runs : SettleBatch(r)
    \/ \E r \in DOMAIN runs : PauseElapsed(r)

Spec == Init /\ [][Next]_vars

\* ---- filterFlights called directly
OfferSeqs == SeqsUpTo(Offers, MaxOffers)

NextFilter == \E flts \in OfferSeqs : \E fs \in FilterSpecs : CallFilter(flts, fs)

InitFilter == InitApp /\ InitCalls /\ source = CycleTable(0)

SpecFilter == InitFilter /\ [][NextFilter]_vars

\* ---- extractPriceData called directly, one call at a time
InitAgg == InitApp /\ InitCalls /\ source \in SourceTables

NextAgg ==
    \/ \E flts \in OfferSeqs : \E ctx \in {None, Some(P1)} : CallAggregate(flts, ctx)
    \/ \E r \in DOMAIN runs : \E index \in runs[r].inflight : SettleRequest(r, index)
    \/ \E r \in DOMAIN runs : PauseElapsed(r)

SpecAgg == InitAgg /\ [][NextAgg]_vars

InitApi == InitApp /\ InitCalls /\ source = CycleTable(0)

NextApi ==
    \/ \E c \in Callers : \E fn \in {"search", "price"} : ApiCall(c, fn)
    \/ \E c \in Callers : \E ok \in BOOLEAN : TokenSettles(c, ok)
    \/ \E c \in Callers : \E resp \in ApiResponses : GetSettles(c, resp)
    \/ TokenExpires

SpecApi == InitApi /\ [][NextApi]_vars

\* every request issued settles in the end, and the 200 ms timer fires
SpecAggFair ==
    /\ InitAgg
    /\ [][NextAgg]_vars
    /\ WF_vars(\E r \in DOMAIN runs : \E index \in runs[r].inflight : SettleRequest(r, index))
    /\ WF_vars(\E r \in DOMAIN runs : PauseElapsed(r))

----------------------------------------------------------------------------
\* Properties

\* ---- shared vocabulary of the properties

\* the calendar day of the first segment of the outbound itinerary
DepartureDay(o) == o.itineraries[1][1].at.day

\* p is x / den rounded to the nearest integer, halves up
IsRounded(p, x, den) == (2 * p - 1) * den <= 2 * x /\ 2 * x < (2 * p + 1) * den

\* every numberOfStops of the offer, over all segments of all itineraries
StopsOf(o) ==
    UNION {{o.itineraries[i][j].numberOfStops : j \in DOMAIN o.itineraries[i]} :
              i \in DOMAIN o.itineraries}

\* the indices whose request has settled in a suspended call
Settled(run) == UNION {Range(run.issued[b]) : b \in DOMAIN run.issued} \ run.inflight

\* the point is what the answer of the source for its date makes of a gap
GapPointMatches(pt, origin) ==
    LET resp == source[origin][pt.date]
    IN IF resp.status = 200 /\ Len(resp.data) > 0
       THEN /\ pt.count = 1
            /\ pt.price # None
            /\ \E m \in Range(resp.data) :
                  /\ \A x \in Range(resp.data) : m <= x
                  /\ IsRounded(pt.price[1], m, 100)
       ELSE pt.price = None /\ pt.count = 0

\* ---- C1
\* C1: filterFlights keeps an offer iff its maximum stop count over all
\* segments of all itineraries equals spec.stops (or stops is null), its total
\* is <= spec.maxPrice (or maxPrice is null), and it has a validating airline
\* in spec.airlines (or airlines is empty).
C1_Retained(o, fs) ==
    /\ fs.stops = None
         \/ (fs.stops[1] \in StopsOf(o) /\ \A n \in StopsOf(o) : n <= fs.stops[1])
    /\ fs.maxPrice = None \/ o.total <= fs.maxPrice[1]
    /\ fs.airlines = <<>>
         \/ Range(o.validatingAirlineCodes) \cap Range(fs.airlines) # {}

C1_Kept(o) == C1_Retained(o, fSpec)

\* C1: the output of filterFlights is the input restricted to the offers for
\* which the three predicates hold together.
C1_RetainsIffAllThree == fOut = SelectSeq(fIn, C1_Kept)

\* a one-stop outbound with a non-stop return is dropped by stops = 0
C1_Witness ==
    /\ last.kind = "CallFilter"
    /\ fSpec = [stops |-> Some(0), maxPrice |-> None, airlines |-> <<>>]
    /\ fIn = <<O2, O1>>
    /\ fOut = <<O1>>

\* ---- C2
\* C2: for a non-empty offer list, extractPriceData returns (latest departure
\* day - earliest departure day) + 6 points, one per calendar day from the
\* earliest day on, whatever the times of day.
C2_RangeIsContiguous ==
    (aOut.status = "returned" /\ aIn # <<>>) =>
        LET days == {DepartureDay(aIn[i]) : i \in DOMAIN aIn}
            earliest == CHOOSE d \in days : \A e \in days : d <= e
            latest == CHOOSE d \in days : \A e \in days : e <= d
        IN /\ Len(aOut.data) = (latest - earliest) + 6
           /\ \A k \in DOMAIN aOut.data : aOut.data[k].date = earliest + k - 1

\* ---- C3
RECURSIVE SumTotals(_, _)
SumTotals(flts, indices) ==
    IF indices = {} THEN 0
    ELSE LET i == CHOOSE x \in indices : TRUE
         IN flts[i].total + SumTotals(flts, indices \ {i})

\* C3: every day on which an offer departs (first segment of the outbound
\* itinerary) has a point whose price is round(sum of that day's totals /
\* their number) and whose count is their number.
C3_LocalAverages ==
    aOut.status = "returned" =>
        \A i \in DOMAIN aIn :
            LET sameDay == {j \in DOMAIN aIn : DepartureDay(aIn[j]) = DepartureDay(aIn[i])}
                n == Cardinality(sameDay)
            IN \E k \in DOMAIN aOut.data :
                  /\ aOut.data[k].date = DepartureDay(aIn[i])
                  /\ aOut.data[k].count = n
                  /\ aOut.data[k].price # None
                  /\ IsRounded(aOut.data[k].price[1], SumTotals(aIn, sameDay), 100 * n)

\* totals 100 and 200 on one day give price 150, count 2, after a gap-fill
C3_Witness ==
    /\ aOut.status = "returned"
    /\ aCtx # None
    /\ aIn = <<O1, O2>>
    /\ aOut.data[1] = [date |-> 0, price |-> Some(150), count |-> 2]

\* ---- C5
\* the dates of the call's input that have an offer of their own
LocalDays == {DepartureDay(aIn[i]) : i \in DOMAIN aIn}

\* C5: a gap date whose request resolved with a value v ends with price
\* round(v) and count 1; a gap date whose request failed or found no offers
\* ends with the price absent and count 0. This holds for each request as it
\* settles and for the series the call returns.
C5_GapFillPerDate ==
    /\ \A r \in DOMAIN runs :
          \A index \in Settled(runs[r]) :
              GapPointMatches(runs[r].allDates[index], runs[r].sp[1].origin)
    /\ (aOut.status = "returned" /\ aCtx # None) =>
          \A k \in DOMAIN aOut.data :
              aOut.data[k].date \notin LocalDays =>
                  GapPointMatches(aOut.data[k], aCtx[1].origin)

\* one returned series holds a filled gap (120.49 rounds to 120), a gap whose
\* request failed and a gap whose request found no offers
C5_Witness ==
    /\ aOut.status = "returned"
    /\ aCtx # None
    /\ \E k1, k2, k3 \in DOMAIN aOut.data :
          /\ {aOut.data[k1].date, aOut.data[k2].date, aOut.data[k3].date} \cap LocalDays = {}
          /\ source[aCtx[1].origin][aOut.data[k1].date] = Resp(200, <<13000, 12049>>)
          /\ aOut.data[k1].price = Some(120) /\ aOut.data[k1].count = 1
          /\ source[aCtx[1].origin][aOut.data[k2].date].status = 500
          /\ aOut.data[k2].price = None /\ aOut.data[k2].count = 0
          /\ source[aCtx[1].origin][aOut.data[k3].date] = Resp(200, <<>>)
          /\ aOut.data[k3].price = None /\ aOut.data[k3].count = 0

\* ---- C6
\* the source has a price for the date
HasPrice(origin, date) ==
    source[origin][date].status = 200 /\ Len(source[origin][date].data) > 0

C6_Safe ==
    (last.kind # "Init" /\ aCtx # None /\ aIn # <<>> /\ ~ThrowsOnDates(aIn)) =>
        /\ aOut.status \in {"pending", "returned"}
        /\ aOut.status = "pending" =>
              \E r \in DOMAIN runs :
                  /\ runs[r].owner = "call"
                  /\ runs[r].inflight # {} \/ runs[r].pausing
                  /\ \A index \in Settled(runs[r]) :
                        HasPrice(runs[r].sp[1].origin, runs[r].allDates[index].date)
                            => runs[r].allDates[index].count = 1
        /\ aOut.status = "returned" =>
              /\ Len(aOut.data) = Len(RangeSkeleton(aIn))
              /\ \A k \in DOMAIN aOut.data :
                    /\ aOut.data[k].date = RangeSkeleton(aIn)[k].date
                    /\ aOut.data[k].date \in LocalDays => aOut.data[k] = RangeSkeleton(aIn)[k]
                    /\ (aOut.data[k].date \notin LocalDays
                          /\ HasPrice(aCtx[1].origin, aOut.data[k].date))
                         => aOut.data[k].count = 1 /\ aOut.data[k].price # None

C7_Batches ==
    \A r \in DOMAIN runs :
        LET run == runs[r]
            n == Len(run.issued)
            total == Len(run.datesToFetch)
        IN /\ \A k \in 1..(total - 1) : run.datesToFetch[k] < run.datesToFetch[k + 1]
           /\ Cardinality(run.inflight) <= 5
           /\ n >= 1
           /\ \A b \in 1..n :
                 /\ Len(run.issued[b]) <= 5
                 /\ b < n => Len(run.issued[b]) = 5
                 /\ run.issued[b] =
                       SubSeq(run.datesToFetch, 5 * (b - 1) + 1,
                              IF 5 * b < total THEN 5 * b ELSE total)
           /\ run.inflight \subseteq Range(run.issued[n])
           /\ run.pausing => (run.inflight = {} /\ 5 * n < total)

\* a call whose second batch, shorter than the first, is in flight
C7_Witness ==
    \E r \in DOMAIN runs :
        /\ Len(runs[r].issued) = 2
        /\ Len(runs[r].issued[1]) = 5
        /\ Len(runs[r].issued[2]) < 5
        /\ runs[r].inflight = Range(runs[r].issued[2])

\* ---- C4
\* aggregate(ff, sp) as it ends when nothing interferes: the local points, and
\* every gap filled from what the source has for its date
FullAggregate(ff, sp) ==
    IF Len(ff) = 0 THEN <<>>
    ELSE LET skeleton == RangeSkeleton(ff)
         IN [k \in DOMAIN skeleton |->
               IF skeleton[k].count > 0 \/ sp = None
                    \/ ~HasPrice(sp[1].origin, skeleton[k].date)
               THEN skeleton[k]
               ELSE [date |-> skeleton[k].date,
                     price |-> getPriceForDate(source[sp[1].origin][skeleton[k].date]),
                     count |-> 1]]

\* C4: once the search and every aggregation run have settled, the price
\* series on display is the aggregate of the current filtered offers under the
\* current search context, and empty when there are none: a run that a later
\* changeFilters or submitSearch superseded has left no trace.
C4_SettledSeriesIsCurrent ==
    (runs = <<>> /\ pendingSearch = None) =>
        LET expected == FullAggregate(filteredFlights, searchParams)
        IN /\ Len(priceData) = Len(expected)
           /\ \A k \in DOMAIN expected :
                 /\ priceData[k].date = expected[k].date
                 /\ priceData[k].count = expected[k].count
                 /\ (expected[k].price = None) = (priceData[k].price = None)
                 /\ expected[k].price # None =>
                       IF expected[k].count = 1 /\ expected[k].date \notin
                             {DepartureDay(filteredFlights[i]) : i \in DOMAIN filteredFlights}
                       THEN IsRounded(priceData[k].price[1], expected[k].price[1], 100)
                       ELSE priceData[k].price = expected[k].price

\* ---- C8
\* C8: from the moment submitSearch(params) is accepted until the source
\* settles, the stored offers are empty, the price series is empty, the
\* filter spec is the no-constraint spec, the error is absent and the stored
\* search context is params.
C8_SearchingIsCleared ==
    pendingSearch # None =>
        /\ flights = <<>>
        /\ priceData = <<>>
        /\ filters = NoFilters
        /\ error = None
        /\ searchParams = pendingSearch

\* ---- C9
\* C9: right after the source succeeded with O, O is the stored offers; with O
\* non-empty PriceLoading is set and aggregate(O, context) is running; with O
\* empty the series is empty and no aggregation was started by the search;
\* and when the search's aggregation returns, PriceLoading is cleared and the
\* price series is what it returned.
C9_SearchSuccess ==
    /\ last.kind = "SearchSucceeds" =>
          /\ flights = last.data
          /\ pendingSearch = None
          /\ last.data # <<>> =>
                /\ loadingPrices
                /\ \E r \in DOMAIN runs :
                      /\ runs[r].owner = "search"
                      /\ runs[r].of = last.data
                      /\ runs[r].sp = searchParams
          /\ last.data = <<>> =>
                /\ priceData = <<>>
                /\ \A r \in DOMAIN runs : runs[r].owner # "search"
    /\ (last.kind = "RunReturns" /\ last.owner = "search") =>
          /\ ~loadingPrices
          /\ priceData = last.data

\* ---- C10
\* C10: right after the source failed, loading is cleared, the offers and the
\* price series are empty and the error is the failure's message; and a
\* stored error changes only by a submitSearch, which clears it.
C10_SearchFailure ==
    /\ [](last.kind = "SearchFails" =>
            /\ ~loading
            /\ pendingSearch = None
            /\ flights = <<>>
            /\ filteredFlights = <<>>
            /\ priceData = <<>>
            /\ error = last.data)
    /\ [][error # None =>
             \/ error' = error
             \/ last'.kind = "HandleSearch" /\ error' = None]_vars

\* the second search of a session failed
C10_Witness ==
    /\ last.kind = "SearchFails"
    /\ nSearch = 2
    /\ error = Some(CHOOSE m \in SearchErrors : TRUE)
    /\ flights = <<>>
    /\ priceData = <<>>

\* ---- C11
C11_Kept(o) == C1_Retained(o, filters)

C11_AfterChange ==
    /\ filteredFlights = SelectSeq(flights, C11_Kept)
    /\ last.kind = "HandleFiltersChange" =>
          /\ filters = last.data[1]
          /\ filteredFlights = <<>> => priceData = <<>>
          /\ filteredFlights # <<>> =>
                /\ loadingPrices
                /\ \E r \in DOMAIN runs :
                      /\ runs[r].owner = "effect"
                      /\ runs[r].of = filteredFlights
                      /\ runs[r].sp = searchParams
    /\ (last.kind = "RunReturns" /\ last.owner = "effect") =>
          /\ priceData = last.data
          /\ ~loadingPrices

\* C11: changeFilters(newSpec) stores newSpec as the whole filter spec and
\* leaves offers, search context and error alone; the filtered offers are
\* always filter(offers, spec); with no filtered offer left the price series
\* is emptied, otherwise PriceLoading is set and aggregate(filteredOffers,
\* context) runs, and when it returns its result is the price series and
\* PriceLoading is cleared.
C11_ChangeFilters ==
    /\ []C11_AfterChange
    /\ [][nFilter' # nFilter =>
             /\ filters' = last'.data[1]
             /\ flights' = flights
             /\ searchParams' = searchParams
             /\ error' = error]_vars

\* a filter change left one offer of two and started its aggregation
C11_Witness ==
    /\ last.kind = "HandleFiltersChange"
    /\ flights = <<O2, O3>>
    /\ filters.stops = Some(1)
    /\ filteredFlights = <<O2>>
    /\ loadingPrices
    /\ \E r \in DOMAIN runs : runs[r].owner = "effect" /\ runs[r].of = <<O2>>

\* ---- C12
\* C12: when the source succeeded with offers on which the context-aware
\* aggregation and its one fallback without context both fail, the step keeps
\* the price series as it was, stores the offers the source returned and
\* leaves PriceLoading cleared.
C12_FallbackFailureKeepsState ==
    [][(pendingSearch # None /\ pendingSearch' = None
          /\ last'.kind = "SearchSucceeds" /\ ThrowsOnDates(last'.data)) =>
            /\ flights' = last'.data
            /\ priceData' = priceData
            /\ ~loadingPrices']_vars

\* ---- C13
\* C13: a call sends at most two requests to the source: after a first 401 it
\* drops the cached token and retries once, and a 401 to the retry ends the
\* call (searchFlights raises, getPriceForDate yields absent).
C13_RetryOnce ==
    \A c \in Callers :
        /\ api[c].requests <= 2
        /\ (api[c].requests = 2 /\ api[c].pc # "get") =>
              /\ api[c].pc = "done"
              /\ api[c].result # None
              /\ api[c].fn = "search" \/ api[c].result[1].kind = "returned"

\* ---- C14
\* C14: with only a stops choice set (0 for non-stop, 1 for one stop, 2 for
\* 2+ stops), an offer is retained exactly when its maximum stop count falls
\* in the bucket of the choice, the bucket of 2 holding every maximum of 2 or
\* more; so each offer is retained by exactly one of the three choices.
C14_StopBuckets ==
    (last.kind = "CallFilter" /\ fSpec.stops # None
       /\ fSpec.maxPrice = None /\ fSpec.airlines = <<>>) =>
        \A i \in DOMAIN fIn :
            LET most == CHOOSE n \in StopsOf(fIn[i]) : \A k \in StopsOf(fIn[i]) : k <= n
                bucket == IF most >= 2 THEN 2 ELSE most
            IN (\E j \in DOMAIN fOut : fOut[j] = fIn[i]) <=> (bucket = fSpec.stops[1])

\* ---- C15
\* C15: with stops = null, maxPrice = null and airlines = [] filterFlights
\* returns its input: the same offers, in the same order, of the same length,
\* the empty input included.
C15_NoConstraintIsIdentity ==
    (last.kind = "CallFilter" /\ fSpec.stops = None /\ fSpec.maxPrice = None
       /\ fSpec.airlines = <<>>) =>
        /\ Len(fOut) = Len(fIn)
        /\ \A i \in DOMAIN fIn : fOut[i] = fIn[i]

\* two offers, one of them with three stops and one unreadable, come back
C15_Witness ==
    /\ last.kind = "CallFilter"
    /\ fSpec = NoFilters
    /\ fIn = <<O4, OBad>>
    /\ fOut = <<O4, OBad>>

\* ---- C16
\* C16: the output of filterFlights is the input with some positions left
\* out: there is a strictly increasing map from output positions to input
\* positions under which every output offer is the input offer itself.
C16_OrderPreservingSubsequence ==
    last.kind = "CallFilter" =>
        /\ Len(fOut) <= Len(fIn)
        /\ \E pos \in [DOMAIN fOut -> DOMAIN fIn] :
              /\ \A j \in DOMAIN fOut : fOut[j] = fIn[pos[j]]
              /\ \A j, k \in DOMAIN fOut : j < k => pos[j] < pos[k]

\* of two different offers both are retained under a price limit, in order
C16_Witness ==
    /\ last.kind = "CallFilter"
    /\ fSpec.maxPrice = Some(15049)
    /\ fIn = <<O4, O1>>
    /\ fOut = <<O4, O1>>

\* ---- C17
\* C17: extractPriceData on an empty offer list returns the empty sequence at
\* once and no request is ever sent, with a search context and without.
C17_EmptyInput ==
    (last.kind # "Init" /\ aIn = <<>>) =>
        /\ aOut = [status |-> "returned", data |-> <<>>]
        /\ runs = <<>>

\* the empty list was given together with a search context
C17_Witness ==
    /\ last.kind = "CallAggregate"
    /\ aIn = <<>>
    /\ aCtx = Some(P1)
    /\ aOut.status = "returned"
    /\ aOut.data = <<>>

\* ---- C18
\* C18: extractPriceData without a search context on offers with readable
\* dates returns at once and sends no request; in what it returns every date
\* without an offer has no price and count 0, and every date with offers has
\* the rounded average and the number of its offers.
C18_NoContextNoFetch ==
    (last.kind # "Init" /\ aCtx = None /\ aIn # <<>> /\ ~ThrowsOnDates(aIn)) =>
        /\ aOut.status = "returned"
        /\ runs = <<>>
        /\ Len(aOut.data) > 0
        /\ \A k \in DOMAIN aOut.data :
              LET onDay == {i \in DOMAIN aIn : DepartureDay(aIn[i]) = aOut.data[k].date}
              IN IF onDay = {}
                 THEN aOut.data[k].price = None /\ aOut.data[k].count = 0
                 ELSE /\ aOut.data[k].count = Cardinality(onDay)
                      /\ aOut.data[k].price # None
                      /\ IsRounded(aOut.data[k].price[1], SumTotals(aIn, onDay),
                                   100 * Cardinality(onDay))

\* without context the days between and after two offers stay unknown
C18_Witness ==
    /\ last.kind = "CallAggregate"
    /\ aCtx = None
    /\ aIn = <<O2, O3>>
    /\ aOut.status = "returned"
    /\ aOut.data[2] = [date |-> 1, price |-> None, count |-> 0]
    /\ aOut.data[3] = [date |-> 2, price |-> Some(151), count |-> 1]
    /\ Len(aOut.data) = 8

\* ---- C19
\* series is the one aggregate(flts, sp) determined by the offers, the context
\* and the answers of the source per date
IsAggregateOf(series, flts, sp) ==
    LET expected == FullAggregate(flts, sp)
        local == {DepartureDay(flts[i]) : i \in DOMAIN flts}
    IN /\ Len(series) = Len(expected)
       /\ \A k \in DOMAIN expected :
             /\ series[k].date = expected[k].date
             /\ series[k].count = expected[k].count
             /\ (series[k].price = None) = (expected[k].price = None)
             /\ expected[k].price # None =>
                   IF expected[k].date \in local
                   THEN series[k].price = expected[k].price
                   ELSE IsRounded(series[k].price[1], expected[k].price[1], 100)

\* C19: whatever the order in which the requests of a batch settle, the
\* sequence a call returns is the one sequence fixed by its offers, its
\* context and the answers of the source per date; so two runs on identical
\* inputs return identical sequences.
C19_Deterministic ==
    aOut.status = "returned" => IsAggregateOf(aOut.data, aIn, aCtx)

\* in the first batch of a call the request of the first date is the only one
\* still in flight: the later ones settled before it
C19_Witness ==
    \E r \in DOMAIN runs :
        /\ runs[r].owner = "call"
        /\ Len(runs[r].issued) = 1
        /\ Len(runs[r].issued[1]) = 5
        /\ runs[r].inflight = {runs[r].issued[1][1]}

\* ---- C20
\* C20: when a searchFlights request is answered with an error other than a
\* 401, the Error raised carries the detail d of the source verbatim,
\* followed by the offending parameter when the source names one; when the
\* source gives no detail, it carries the fixed generic message and nothing
\* else.
C20_ErrorMessage ==
    \A c \in Callers :
        (api[c].fn = "search" /\ api[c].pc = "done" /\ api[c].resp # None
           /\ api[c].resp[1].status \notin {200, 401}) =>
            LET errors == api[c].resp[1].errors
                message == api[c].result[1].value[1]
            IN /\ api[c].result[1].kind = "raised"
               /\ IF Len(errors) > 0 /\ errors[1].detail # None
                  THEN /\ message[1] = errors[1].detail[1]
                       /\ errors[1].parameter = None => Len(message) = 1
                       /\ errors[1].parameter # None =>
                             message = <<errors[1].detail[1], " (Parameter: ",
                                         errors[1].parameter[1], ")">>
                  ELSE message = <<GenericMessage>>

\* ---- C21
\* C21: a submitSearch or a changeFilters starts at most one extractPriceData
\* run, so no step of a handler (with the render and the effect it causes)
\* leaves more than one new run in flight.
C21_OneRunPerEvent ==
    [][Len(runs') <= Len(runs) + 1]_vars

\* ---- C22
\* the number of batches a run with n gap dates is made of
BatchesOf(n) == (n + 4) \div 5

C22_Run(run) ==
    LET n == Len(run.datesToFetch)
        issuedSoFar == Len(run.issued)
    IN /\ \A k \in DOMAIN run.issued :
             run.issued[k] = SubSeq(run.datesToFetch, 5 * (k - 1) + 1,
                                    IF 5 * k < n THEN 5 * k ELSE n)
       /\ run.inflight \subseteq Range(run.issued[issuedSoFar])
       /\ run.pauses = issuedSoFar - 1
       /\ run.pauses <= BatchesOf(n) - 1
       /\ run.pausing => (run.inflight = {} /\ issuedSoFar < BatchesOf(n))
       /\ issuedSoFar = BatchesOf(n) => (~run.pausing /\ run.pauses = BatchesOf(n) - 1)
       /\ n <= 5 => (run.pauses = 0 /\ ~run.pausing)

\* C22: the k-th batch of a run is the k-th slice of five gap dates; a batch
\* is issued only by the end of a pause that started when no request of the
\* batch before was in flight; a pause follows every batch but the last, so
\* a run with n gap dates has taken ceil(n/5) - 1 pauses when its last batch
\* is out and takes none after it.
C22_BatchesInOrder ==
    /\ [](\A r \in DOMAIN runs : C22_Run(runs[r]))
    /\ [][\A r \in DOMAIN runs :
             (r \in DOMAIN runs' /\ Len(runs'[r].issued) > Len(runs[r].issued)) =>
                 /\ runs[r].pausing
                 /\ runs[r].inflight = {}
                 /\ Len(runs'[r].issued) = Len(runs[r].issued) + 1
                 /\ runs'[r].pauses = runs[r].pauses + 1]_vars

\* eleven gap dates: the third batch, of one request, is out after two pauses
C22_Witness ==
    \E r \in DOMAIN runs :
        /\ Len(runs[r].datesToFetch) = 11
        /\ Len(runs[r].issued) = 3
        /\ runs[r].pauses = 2
        /\ Cardinality(runs[r].inflight) = 1

\* ---- C23
\* C23: whenever PriceLoading is set, loading is clear: the search has left
\* Searching before or when its aggregation sets PriceLoading.
C23_PriceLoadingOnReady == loadingPrices => ~loading

\* ---- C25
\* C25: no run is started with the context of a search together with offers
\* returned for an earlier search of another route: the step that accepts a
\* submitSearch, when no offer of that search exists yet, starts no run that
\* carries its context.
C25_SameSearch ==
    [][(pendingSearch = None /\ pendingSearch' # None /\ searchParams # pendingSearch') =>
          \A r \in DOMAIN runs' :
              r > Len(runs) => runs'[r].sp # pendingSearch']_vars

\* ---- C26
\* C26: while a run started by the App has not settled, PriceLoading is set.
C26_LoadingCoversRuns == runs # <<>> => loadingPrices

\* ---- C27
RECURSIVE InFlight(_)
InFlight(k) == IF k = 0 THEN 0 ELSE Cardinality(runs[k].inflight) + InFlight(k - 1)

\* C27: over all the runs of the App together, at most 5 price requests are
\* in flight.
C27_GlobalThrottle == InFlight(Len(runs)) <= 5

\* C28: when the debounce timer fires, the filters become the filters of that
\* moment with the timer's value as maxPrice, so that no stops or airlines
\* change made while the timer was armed is lost; and a slider move while a
\* timer is armed replaces that timer, so that only the last value is delivered
C28_NoLostChange ==
    [][/\ (debounceTimer # None /\ debounceTimer' = None /\ flights' = flights)
          => filters' = [filters EXCEPT !.maxPrice = Some(debounceTimer[1].value)]
       /\ (debounceTimer' # None /\ debounceTimer' # debounceTimer)
          => sliderValue' = Some(debounceTimer'[1].value)]_vars

\* a refresh of caller c that failed: the call ended on the POST for a token
C24_RefreshFailed(c) ==
    /\ api[c].pc = "done"
    /\ api[c].resp = None \/ api[c].resp[1].status = 401

\* every refresh has settled and none of them failed
C24_Settled ==
    /\ \A c \in Callers : api[c].pc # "post" /\ ~C24_RefreshFailed(c)
    /\ \E c \in Callers : api[c].posts >= 1

RECURSIVE C29_Requested(_)
C29_Requested(issued) ==
    IF issued = <<>> THEN <<>> ELSE Head(issued) \o C29_Requested(Tail(issued))

\* run against the skeleton of its input: requests only for the gap dates,
\* none twice, no date with local offers; local points as in the skeleton
C29_Run(run) ==
    LET skeleton == RangeSkeleton(run.of)
        requested == C29_Requested(run.issued)
        local == {DepartureDay(run.of[i]) : i \in DOMAIN run.of}
    IN /\ Len(run.allDates) = Len(skeleton)
       /\ \A j, k \in DOMAIN requested : j # k => requested[j] # requested[k]
       /\ \A j \in DOMAIN requested :
             /\ skeleton[requested[j]].price = None
             /\ skeleton[requested[j]].date \notin local
       /\ requested = SubSeq(DatesToFetch(skeleton, 1), 1, Len(requested))
       /\ \A k \in DOMAIN skeleton :
             /\ run.allDates[k].date = skeleton[k].date
             /\ skeleton[k].price # None => run.allDates[k] = skeleton[k]
             /\ k \notin Settled(run) => run.allDates[k] = skeleton[k]

\* C29: in a run with a context, a price request is issued exactly once for
\* each date whose skeleton price is absent and never for a date with local
\* offers; points derived from local offers are never changed by gap-fill, and
\* a settling request writes no point but the one of its own date.
C29_GapFillFrame ==
    /\ [](\A r \in DOMAIN runs : C29_Run(runs[r]))
    /\ [][\A r \in DOMAIN runs :
             LET run == runs[r]
                 after == IF r \in DOMAIN runs' THEN runs'[r].allDates ELSE aOut'.data
                 left == IF r \in DOMAIN runs' THEN runs'[r].inflight ELSE {}
                 skeleton == RangeSkeleton(run.of)
             IN /\ Cardinality(run.inflight \ left) <= 1
                /\ \A k \in DOMAIN run.allDates :
                      k \notin (run.inflight \ left) => after[k] = run.allDates[k]
                /\ r \notin DOMAIN runs' =>
                      /\ C29_Requested(run.issued) = DatesToFetch(skeleton, 1)
                      /\ \A k \in DOMAIN skeleton :
                            skeleton[k].price # None => after[k] = skeleton[k]]_vars

\* a run between two local dates: one gap request has written its price,
\* another is still in flight, and the local points stand as computed
C29_Witness ==
    \E r \in DOMAIN runs :
        LET run == runs[r]
            skeleton == RangeSkeleton(run.of)
        IN /\ run.sp # None
           /\ \E k \in Settled(run) : run.allDates[k].price # None
           /\ run.inflight # {}
           /\ Cardinality({k \in DOMAIN skeleton : skeleton[k].price # None}) >= 2

\* in every point of series, the price is absent exactly when count is 0
C30_Series(series) ==
    \A k \in DOMAIN series :
        /\ series[k].count >= 0
        /\ series[k].price = None <=> series[k].count = 0

\* C30: in every point of every series extractPriceData returns, and of the
\* series of a run at every step of its gap-fill, the price is absent if and
\* only if count = 0.
C30_PriceIffCount ==
    /\ \A r \in DOMAIN runs : C30_Series(runs[r].allDates)
    /\ aOut.status = "returned" => C30_Series(aOut.data)

\* a returned series with a day of two local offers (count 2), a gap that was
\* filled (count 1) and a gap that stayed empty (count 0)
C30_Witness ==
    /\ aOut.status = "returned"
    /\ aCtx # None
    /\ \E k1, k2, k3 \in DOMAIN aOut.data :
          /\ aOut.data[k1].count = 2 /\ aOut.data[k1].price # None
          /\ aOut.data[k2].count = 1 /\ aOut.data[k2].date \notin LocalDays
          /\ aOut.data[k3].count = 0 /\ aOut.data[k3].price = None

====
